---- MODULE Spec2Model ----
(***************************************************************************)
(* A model of raven (src/src/main.rs): the forecast poll loop of main,     *)
(* setup, persist_forecast, hash, and the SMS chunker                      *)
(* split_string_into_sms_message_lengths.                                  *)
(*                                                                         *)
(* Spec      is the poll loop together with the two forecast files and the *)
(*           console. One action per statement that fails on its own or   *)
(*           has its own side effect.                                      *)
(* ChunkSpec is the chunker, one action per item pulled from its iterator. *)
(***************************************************************************)
EXTENDS Naturals, Sequences, FiniteSets, TLC

VARIABLES
    pc,                   \* where the process is in main / setup / persist_forecast
    cycle,                \* number of the current iteration of main's loop
    file,                 \* the file system: path -> [exists, content]
    stdout,               \* the console: the sequence of texts printed so far
    full_forecast,        \* main's local (line 32)
    abbreviated_forecast, \* main's local (line 33)
    forecast,             \* persist_forecast's parameter
    filename,             \* persist_forecast's parameter
    caller,               \* the call site persist_forecast returns to
    error,                \* the Err / panic raised, "none" while there is none
    persisted,            \* history: the call sites that called persist_forecast
                          \* in the current iteration of the loop
    tampered,             \* history: the files changed from outside since the
                          \* previous iteration ended
    chunk_input,          \* the chunker's parameter forecast
    chars,                \* the chunker's iterator: the characters not yet taken
    sub_string,           \* the chunker's collected fragments
    chunk_pc              \* "iter" while the chunker pulls items, "done" after

pollVars == <<pc, cycle, file, stdout, full_forecast, abbreviated_forecast,
              forecast, filename, caller, error, persisted, tampered>>
chunkVars == <<chunk_input, chars, sub_string, chunk_pc>>
vars == <<pc, cycle, file, stdout, full_forecast, abbreviated_forecast,
          forecast, filename, caller, error, persisted, tampered,
          chunk_input, chars, sub_string, chunk_pc>>

----------------------------------------------------------------------------
(* Bounds of the model.                                                    *)

\* The longest forecast text the page returns or a file holds (poll loop).
MaxTextLen == 2
\* The number of iterations of main's loop that are explored.
MaxCycles == 2
\* The longest text handed to the chunker: above 2 * 160 so that three
\* fragments, a short last fragment and exact multiples of 160 all occur.
MaxChunkInputLen == 325

----------------------------------------------------------------------------
(* Texts. A text is a sequence of character codes.                         *)

\* The character at position i of the sample texts: two characters that
\* alternate, so that a text, its proper prefixes and its extensions differ.
CharAt(i) == 1 + ((i - 1) % 2)

TextOfLen(n) == [i \in 1..n |-> CharAt(i)]

\* The texts of the poll loop: closed under taking prefixes, since a failed
\* write leaves a prefix of the text in the file.
Texts == { TextOfLen(n) : n \in 0..MaxTextLen }

FORECAST_FULL_PATH == "forecast_full.txt"
FORECAST_ABBREVIATED_PATH == "forecast_abbreviated.txt"
Paths == {FORECAST_FULL_PATH, FORECAST_ABBREVIATED_PATH}

NoFile == [exists |-> FALSE, content |-> <<>>]
FileOf(t) == [exists |-> TRUE, content |-> t]
FileStates == {NoFile} \cup { FileOf(t) : t \in Texts }

----------------------------------------------------------------------------
(* hash (lines 120-124): DefaultHasher over the text, finished to a u64.   *)
(* The digest is a deterministic, order-sensitive fold of the characters   *)
(* into a range that is smaller than the set of texts: u64 has 2^64 values *)
(* and String has no length limit, so the function is not injective. The   *)
(* model keeps that relation at its own scale: the digest range is one     *)
(* smaller than the set of texts.                                          *)

HashRange == Cardinality(Texts) - 1

RECURSIVE HashWrite(_, _)
HashWrite(state, bytes) ==
    IF bytes = <<>> THEN state
    ELSE HashWrite(state * 3 + Head(bytes), Tail(bytes))

\* t.hash(&mut s) and s.finish() (lines 122-123): the state after the text
\* was written, mixed once more and cut to the digest range.
hash(t) == (HashWrite(1, t) \div 2) % HashRange

\* Faulty variants of has_changed: the fetched text is compared with the text
\* printed last instead of the text read; every fetch counts as a change.
has_changed_cached(fetched, stored) ==
    IF stdout = <<>> THEN hash(fetched) # hash(stored)
    ELSE hash(fetched) # hash(stdout[Len(stdout)])
has_changed_always(fetched, stored) == TRUE

\* Lines 39 and 43: hash(&fetched) != hash(&fs::read_to_string(path)?).
has_changed(fetched, stored) == hash(fetched) # hash(stored)

----------------------------------------------------------------------------
(* The file system and the results of the fallible calls.                  *)

\* fs::read_to_string(path): the content when the file exists and the read
\* succeeds; an Err when the file is missing or the read fails.
read_to_string(path) ==
    { [ok |-> TRUE, text |-> file[path].content] : x \in IF file[path].exists THEN {1} ELSE {} }
    \cup { [ok |-> FALSE, text |-> <<>>] }

\* Faulty variant of exists: an empty file counts as missing.
exists_nonempty(path) == file[path].exists /\ file[path].content # <<>>

\* Path::new(path).exists()
exists(path) == file[path].exists

ProperPrefixes(t) == { SubSeq(t, 1, n) : n \in 0..(Len(t) - 1) }

\* Faulty variant of create: the file is opened without truncating it.
create_keep(f) == IF f.exists THEN f ELSE FileOf(<<>>)

\* File::create (line 92) on file state f: the file exists and is empty, whether
\* it was created or truncated.
create(f) == FileOf(<<>>)

\* Faulty variant of write_fmt: writeln! instead of write!, a line break follows the text.
write_fmt_newline(f, text) == FileOf(f.content \o text \o <<10>>)

\* write! (line 93) of text through the handle File::create returned: the
\* text goes after what the file holds, which is nothing after create.
write_fmt(f, text) == FileOf(f.content \o text)

\* Faulty variant of ReturnTo: setup returns as soon as it has created the first
\* file, the check of the second file is skipped.
ReturnTo_skip(from) ==
    IF from \in {"setup_full", "setup_abbr"} THEN "detect_full"
    ELSE IF from = "main_full" THEN "detect_abbr"
    ELSE "sleep"

\* The statement main or setup goes on with after persist_forecast returned Ok.
ReturnTo(from) ==
    CASE from = "setup_full" -> "setup_abbr"
      [] from = "setup_abbr" -> "detect_full"
      [] from = "main_full"  -> "detect_abbr"
      [] from = "main_abbr"  -> "sleep"

\* Faulty variant of Propagate: the Err is dropped and the caller goes on.
Propagate_ignore(from) == ReturnTo(from)

\* What the call site does with an Err of persist_forecast: setup's .expect(..)
\* panics (lines 58, 61), main's ? returns the Err from main (lines 40, 44).
\* Either way the process ends.
Propagate(from) ==
    IF from \in {"setup_full", "setup_abbr"} THEN "panicked" ELSE "returned_err"

Terminated == {"panicked", "returned_err"}

\* Faulty variant of Fail: before the process ends, the files this cycle wrote are
\* removed.
Fail_rollback(e, how) ==
    /\ pc' = how
    /\ error' = e
    /\ file' = [p \in Paths |->
                   IF \/ p = FORECAST_FULL_PATH
                         /\ {"setup_full", "main_full"} \cap persisted # {}
                      \/ p = FORECAST_ABBREVIATED_PATH
                         /\ {"setup_abbr", "main_abbr"} \cap persisted # {}
                   THEN NoFile ELSE file[p]]
    /\ UNCHANGED <<cycle, stdout, full_forecast, abbreviated_forecast,
                   forecast, filename, caller, persisted, tampered>>

\* The process ends with error e in the way `how`; nothing else changes.
Fail(e, how) ==
    /\ pc' = how
    /\ error' = e
    /\ UNCHANGED <<cycle, file, stdout, full_forecast, abbreviated_forecast,
                   forecast, filename, caller, persisted, tampered>>

\* persist_forecast(fc, fn) is called from call site `from`.
Call(fc, fn, from) ==
    /\ pc' = "persist_println"
    /\ forecast' = fc
    /\ filename' = fn
    /\ caller' = from
    /\ persisted' = persisted \cup {from}
    /\ UNCHANGED <<cycle, file, stdout, full_forecast, abbreviated_forecast, error,
                   tampered>>

\* main or setup moves on to statement `next` without any effect.
Goto(next) ==
    /\ pc' = next
    /\ UNCHANGED <<cycle, file, stdout, full_forecast, abbreviated_forecast,
                   forecast, filename, caller, error, persisted, tampered>>

----------------------------------------------------------------------------
(* main (lines 16-53)                                                      *)

\* Lines 18-29: Browser::new(..)?, wait_for_initial_tab()?, navigate_to(..)?,
\* wait_for_element(..)?.click()?
AcquireSession ==
    /\ pc = "session"
    /\ \E ok \in BOOLEAN :
          IF ok THEN Goto("fetch_full") ELSE Fail("SessionError", "returned_err")
    /\ UNCHANGED chunkVars

\* Faulty variant of FetchFull: the fetched text is stored as soon as it is there.
FetchFullEager ==
    /\ pc = "fetch_full"
    /\ \/ \E t \in Texts :
             /\ full_forecast' = t
             /\ file' = [file EXCEPT ![FORECAST_FULL_PATH] = FileOf(t)]
             /\ pc' = "fetch_abbr"
             /\ UNCHANGED <<cycle, stdout, abbreviated_forecast,
                            forecast, filename, caller, error, persisted, tampered>>
       \/ Fail("RetrievalError", "panicked")
    /\ UNCHANGED chunkVars

\* Line 32: fetch_higher_summits_forecast(&tab).expect("Could not fetch forecast")
FetchFull ==
    /\ pc = "fetch_full"
    /\ \/ \E t \in Texts :
             /\ full_forecast' = t
             /\ pc' = "fetch_abbr"
             /\ UNCHANGED <<cycle, file, stdout, abbreviated_forecast,
                            forecast, filename, caller, error, persisted, tampered>>
       \/ Fail("RetrievalError", "panicked")
    /\ UNCHANGED chunkVars

\* Line 33: fetch_abbreviated_forecast(&tab)?
FetchAbbreviated ==
    /\ pc = "fetch_abbr"
    /\ \/ \E t \in Texts :
             /\ abbreviated_forecast' = t
             /\ pc' = "setup_full"
             /\ UNCHANGED <<cycle, file, stdout, full_forecast,
                            forecast, filename, caller, error, persisted, tampered>>
       \/ Fail("RetrievalError", "returned_err")
    /\ UNCHANGED chunkVars

\* Faulty variant of SetupFull: the missing file is created only if the fetched text's
\* fingerprint differs from that of the empty text.
SetupFullIfChanged ==
    /\ pc = "setup_full"
    /\ IF ~exists(FORECAST_FULL_PATH) /\ has_changed(full_forecast, <<>>)
       THEN Call(full_forecast, FORECAST_FULL_PATH, "setup_full")
       ELSE Goto("setup_abbr")
    /\ UNCHANGED chunkVars

\* Lines 57-59 of setup, called at line 36.
SetupFull ==
    /\ pc = "setup_full"
    /\ IF ~exists(FORECAST_FULL_PATH)
       THEN Call(full_forecast, FORECAST_FULL_PATH, "setup_full")
       ELSE Goto("setup_abbr")
    /\ UNCHANGED chunkVars

\* Faulty variant of SetupAbbreviated: an existing file whose text is not the fetched
\* text is rewritten as well.
SetupAbbreviatedRefresh ==
    /\ pc = "setup_abbr"
    /\ IF \/ ~exists(FORECAST_ABBREVIATED_PATH)
          \/ file[FORECAST_ABBREVIATED_PATH].content # abbreviated_forecast
       THEN Call(abbreviated_forecast, FORECAST_ABBREVIATED_PATH, "setup_abbr")
       ELSE Goto("detect_full")
    /\ UNCHANGED chunkVars

\* Lines 60-62 of setup.
SetupAbbreviated ==
    /\ pc = "setup_abbr"
    /\ IF ~exists(FORECAST_ABBREVIATED_PATH)
       THEN Call(abbreviated_forecast, FORECAST_ABBREVIATED_PATH, "setup_abbr")
       ELSE Goto("detect_full")
    /\ UNCHANGED chunkVars

\* Faulty variant of DetectFull: a text equal to the one printed last is not
\* written again.
DetectFullSkipsRepeat ==
    /\ pc = "detect_full"
    /\ \E r \in read_to_string(FORECAST_FULL_PATH) :
          IF ~r.ok THEN Fail("StorageReadError", "returned_err")
          ELSE IF /\ has_changed(full_forecast, r.text)
                  /\ ~(stdout # <<>> /\ stdout[Len(stdout)] = full_forecast)
               THEN Call(full_forecast, FORECAST_FULL_PATH, "main_full")
               ELSE Goto("detect_abbr")
    /\ UNCHANGED chunkVars

\* Lines 39-41.
DetectFull ==
    /\ pc = "detect_full"
    /\ \E r \in read_to_string(FORECAST_FULL_PATH) :
          IF ~r.ok THEN Fail("StorageReadError", "returned_err")
          ELSE IF has_changed(full_forecast, r.text)
               THEN Call(full_forecast, FORECAST_FULL_PATH, "main_full")
               ELSE Goto("detect_abbr")
    /\ UNCHANGED chunkVars

\* Faulty variant of DetectAbbreviated: line 47 is not commented out, the changed
\* text is handed to the chunker.
DetectAbbreviatedNotifies ==
    /\ pc = "detect_abbr"
    /\ \E r \in read_to_string(FORECAST_ABBREVIATED_PATH) :
          IF ~r.ok
          THEN Fail("StorageReadError", "returned_err") /\ UNCHANGED chunkVars
          ELSE IF has_changed(abbreviated_forecast, r.text)
               THEN /\ Call(abbreviated_forecast, FORECAST_ABBREVIATED_PATH, "main_abbr")
                    /\ chunk_input' = abbreviated_forecast
                    /\ chars' = abbreviated_forecast
                    /\ chunk_pc' = "iter"
                    /\ UNCHANGED sub_string
               ELSE Goto("sleep") /\ UNCHANGED chunkVars

\* Lines 43-48; the call of send_message_to_inreach is commented out.
DetectAbbreviated ==
    /\ pc = "detect_abbr"
    /\ \E r \in read_to_string(FORECAST_ABBREVIATED_PATH) :
          IF ~r.ok THEN Fail("StorageReadError", "returned_err")
          ELSE IF has_changed(abbreviated_forecast, r.text)
               THEN Call(abbreviated_forecast, FORECAST_ABBREVIATED_PATH, "main_abbr")
               ELSE Goto("sleep")
    /\ UNCHANGED chunkVars

\* Faulty variant of Sleep: the loop goes on only after a cycle that wrote a file.
Sleep_if_written ==
    /\ pc = "sleep"
    /\ cycle < MaxCycles
    /\ persisted # {}
    /\ pc' = "session"
    /\ cycle' = cycle + 1
    /\ full_forecast' = <<>>
    /\ abbreviated_forecast' = <<>>
    /\ persisted' = {}
    /\ tampered' = {}
    /\ UNCHANGED <<file, stdout, forecast, filename, caller, error>>
    /\ UNCHANGED chunkVars

\* Line 51 and the loop's back edge: the locals of the iteration are dropped.
Sleep ==
    /\ pc = "sleep"
    /\ cycle < MaxCycles
    /\ pc' = "session"
    /\ cycle' = cycle + 1
    /\ full_forecast' = <<>>
    /\ abbreviated_forecast' = <<>>
    /\ persisted' = {}
    /\ tampered' = {}
    /\ UNCHANGED <<file, stdout, forecast, filename, caller, error>>
    /\ UNCHANGED chunkVars

----------------------------------------------------------------------------
(* persist_forecast (lines 87-95)                                          *)

\* Faulty variant of PersistPrintln: nothing is printed before the file is created.
PersistPrintlnSkipped ==
    /\ pc = "persist_println"
    /\ pc' = "persist_create"
    /\ UNCHANGED <<cycle, file, stdout, full_forecast, abbreviated_forecast,
                   forecast, filename, caller, error, persisted, tampered>>
    /\ UNCHANGED chunkVars

\* Line 89: println!("{}", forecast)
PersistPrintln ==
    /\ pc = "persist_println"
    /\ stdout' = Append(stdout, forecast)
    /\ pc' = "persist_create"
    /\ UNCHANGED <<cycle, file, full_forecast, abbreviated_forecast,
                   forecast, filename, caller, error, persisted, tampered>>
    /\ UNCHANGED chunkVars

\* Line 92: File::create(filename)? creates the file or truncates it.
PersistCreate ==
    /\ pc = "persist_create"
    /\ \/ /\ file' = [file EXCEPT ![filename] = create(file[filename])]
          /\ pc' = "persist_write"
          /\ UNCHANGED <<cycle, stdout, full_forecast, abbreviated_forecast,
                         forecast, filename, caller, error, persisted, tampered>>
       \/ Fail("StorageWriteError", Propagate(caller))
    /\ UNCHANGED chunkVars

\* Faulty variant of PersistWrite: the result of write! is dropped, a short write
\* returns Ok as well.
PersistWriteUnchecked ==
    /\ pc = "persist_write"
    /\ \E part \in ProperPrefixes(forecast) \cup {forecast} :
          /\ file' = [file EXCEPT ![filename] = write_fmt(file[filename], part)]
          /\ pc' = ReturnTo(caller)
          /\ forecast' = <<>>
          /\ filename' = ""
          /\ caller' = ""
          /\ UNCHANGED <<cycle, stdout, full_forecast, abbreviated_forecast, error,
                         persisted, tampered>>
    /\ UNCHANGED chunkVars

\* Lines 93-94: write!(output, "{}", forecast)? and Ok(()). A failed write may
\* have written any proper prefix of the text; writing no byte cannot fail.
PersistWrite ==
    /\ pc = "persist_write"
    /\ \/ /\ file' = [file EXCEPT ![filename] = write_fmt(file[filename], forecast)]
          /\ pc' = ReturnTo(caller)
          /\ forecast' = <<>>
          /\ filename' = ""
          /\ caller' = ""
          /\ UNCHANGED <<cycle, stdout, full_forecast, abbreviated_forecast, error,
                         persisted, tampered>>
       \/ \E part \in ProperPrefixes(forecast) :
             /\ file' = [file EXCEPT ![filename] = write_fmt(file[filename], part)]
             /\ pc' = Propagate(caller)
             /\ error' = "StorageWriteError"
             /\ UNCHANGED <<cycle, stdout, full_forecast, abbreviated_forecast,
                            forecast, filename, caller, persisted, tampered>>
    /\ UNCHANGED chunkVars

----------------------------------------------------------------------------
(* The environment: between two cycles (after the sleep, before the next   *)
(* cycle touches a file) something else may delete, create or rewrite a    *)
(* forecast file; tampered records which files. What the process finds at  *)
(* its start is chosen by Init.                                            *)

Tamper ==
    /\ pc = "session"
    /\ cycle > 1
    /\ \E p \in Paths, f \in FileStates :
          /\ f # file[p]
          /\ file' = [file EXCEPT ![p] = f]
          /\ tampered' = tampered \cup {p}
    /\ UNCHANGED <<pc, cycle, stdout, full_forecast, abbreviated_forecast,
                   forecast, filename, caller, error, persisted>>
    /\ UNCHANGED chunkVars

----------------------------------------------------------------------------

ChunkIdle ==
    /\ chunk_input = <<>>
    /\ chars = <<>>
    /\ sub_string = <<>>
    /\ chunk_pc = "idle"

Init ==
    /\ pc = "session"
    /\ cycle = 1
    /\ file \in [Paths -> FileStates]
    /\ stdout = <<>>
    /\ full_forecast = <<>>
    /\ abbreviated_forecast = <<>>
    /\ forecast = <<>>
    /\ filename = ""
    /\ caller = ""
    /\ error = "none"
    /\ persisted = {}
    /\ tampered = {}
    /\ ChunkIdle

Next ==
    \/ AcquireSession
    \/ FetchFull
    \/ FetchAbbreviated
    \/ SetupFull
    \/ SetupAbbreviated
    \/ DetectFull
    \/ DetectAbbreviated
    \/ PersistPrintln
    \/ PersistCreate
    \/ PersistWrite
    \/ Sleep
    \/ Tamper

Spec == Init /\ [][Next]_vars

\* The statements of main, setup and persist_forecast: everything but the
\* environment.
Program ==
    \/ AcquireSession
    \/ FetchFull
    \/ FetchAbbreviated
    \/ SetupFull
    \/ SetupAbbreviated
    \/ DetectFull
    \/ DetectAbbreviated
    \/ PersistPrintln
    \/ PersistCreate
    \/ PersistWrite
    \/ Sleep

\* main is one thread and every call it makes returns (the browser calls time
\* out, sleep lasts 60 seconds): while the process has a next statement, it
\* executes it.
LiveSpec == Init /\ [][Program]_vars /\ WF_vars(Program)

----------------------------------------------------------------------------
(* split_string_into_sms_message_lengths (lines 126-134)                   *)

\* Line 127.
TEXT_MESSAGE_LENGTH == 160

\* The texts handed to the chunker: every length up to the bound, the
\* character at position i being 1 + (i - 1) % k. 3 and 7 do not divide 160,
\* so neighbouring fragments of a text differ from each other.
PatternText(n, k) == [i \in 1..n |-> 1 + ((i - 1) % k)]
ChunkInputs == { PatternText(n, k) : n \in 0..MaxChunkInputLen, k \in {3, 7} }

Min(a, b) == IF a < b THEN a ELSE b

\* Faulty variant of Take: one character too many is taken from the iterator's view.
Take_inclusive(cs, n) == SubSeq(cs, 1, Min(n + 1, Len(cs)))

\* chars.by_ref().take(n).collect::<String>() (line 130): the string of the
\* next n characters of the iterator, or of all that are left if fewer ...
Take(cs, n) == SubSeq(cs, 1, Min(n, Len(cs)))

\* Faulty variant of Advance: the iterator loses one character more than was taken.
Advance_skip(cs, n) == SubSeq(cs, Min(n, Len(cs)) + 2, Len(cs))

\* ... and the iterator after these characters were consumed.
Advance(cs, n) == SubSeq(cs, Min(n, Len(cs)) + 1, Len(cs))

\* Faulty variant of Keep: the iteration ends at the first fragment that is not full.
Keep_full(s) == Len(s) = TEXT_MESSAGE_LENGTH

\* Line 131: take_while's predicate.
Keep(s) == s # <<>>

\* Lines 129-132: the next item of (0..).map(..) passes take_while and is
\* collected.
ChunkCollect ==
    /\ chunk_pc = "iter"
    /\ Keep(Take(chars, TEXT_MESSAGE_LENGTH))
    /\ sub_string' = Append(sub_string, Take(chars, TEXT_MESSAGE_LENGTH))
    /\ chars' = Advance(chars, TEXT_MESSAGE_LENGTH)
    /\ UNCHANGED <<chunk_input, chunk_pc>>
    /\ UNCHANGED pollVars

\* Lines 131-133: the next item fails take_while's predicate; the item is
\* dropped, the iteration ends and sub_string is returned.
ChunkStop ==
    /\ chunk_pc = "iter"
    /\ ~Keep(Take(chars, TEXT_MESSAGE_LENGTH))
    /\ chars' = Advance(chars, TEXT_MESSAGE_LENGTH)
    /\ chunk_pc' = "done"
    /\ UNCHANGED <<chunk_input, sub_string>>
    /\ UNCHANGED pollVars

PollIdle ==
    /\ pc = "idle"
    /\ cycle = 0
    /\ file = [p \in Paths |-> NoFile]
    /\ stdout = <<>>
    /\ full_forecast = <<>>
    /\ abbreviated_forecast = <<>>
    /\ forecast = <<>>
    /\ filename = ""
    /\ caller = ""
    /\ error = "none"
    /\ persisted = {}
    /\ tampered = {}

\* Line 128: let mut chars = forecast.chars()
ChunkInit ==
    /\ chunk_input \in ChunkInputs
    /\ chars = chunk_input
    /\ sub_string = <<>>
    /\ chunk_pc = "iter"
    /\ PollIdle

ChunkNext ==
    \/ ChunkCollect
    \/ ChunkStop

ChunkSpec == ChunkInit /\ [][ChunkNext]_vars

----------------------------------------------------------------------------
(* The two slots, and where main, setup and persist_forecast handle each.  *)

Slots == {"Full", "Abbreviated"}
PathOf(slot) == IF slot = "Full" THEN FORECAST_FULL_PATH ELSE FORECAST_ABBREVIATED_PATH
Fetched(slot) == IF slot = "Full" THEN full_forecast ELSE abbreviated_forecast
SetupPc(slot) == IF slot = "Full" THEN "setup_full" ELSE "setup_abbr"
DetectPc(slot) == IF slot = "Full" THEN "detect_full" ELSE "detect_abbr"
SetupSite(slot) == IF slot = "Full" THEN "setup_full" ELSE "setup_abbr"
MainSite(slot) == IF slot = "Full" THEN "main_full" ELSE "main_abbr"
AfterSetup(slot) == IF slot = "Full" THEN "setup_abbr" ELSE "detect_full"
AfterDetect(slot) == IF slot = "Full" THEN "detect_abbr" ELSE "sleep"
PersistPcs == {"persist_println", "persist_create", "persist_write"}
Last(s) == s[Len(s)]

\* persist_forecast is being called for this slot with the text fetched for it.
CallsPersist(slot, site) ==
    /\ pc' = "persist_println"
    /\ forecast' = Fetched(slot)
    /\ filename' = PathOf(slot)
    /\ caller' = site

----------------------------------------------------------------------------
(* C1: in every cycle and for each slot, the detect step of main goes on   *)
(* to overwrite the slot exactly when the fingerprint of the text fetched  *)
(* in this cycle differs from the fingerprint of the text the slot's file  *)
(* holds at that step (the text read in this cycle, also after the file    *)
(* was changed from outside); with equal fingerprints nothing is written   *)
(* or printed.                                                             *)

C1_Step(slot) ==
    (pc = DetectPc(slot) /\ pc' \notin Terminated) =>
        IF hash(Fetched(slot)) # hash(file[PathOf(slot)].content)
        THEN CallsPersist(slot, MainSite(slot)) /\ file' = file /\ stdout' = stdout
        ELSE pc' = AfterDetect(slot) /\ file' = file /\ stdout' = stdout

C1_OverwriteIffFingerprintsDiffer == [][\A slot \in Slots : C1_Step(slot)]_vars

\* A second cycle overwrites the Abbreviated slot because the fingerprints
\* of the fetched text and of the file's text differ.
C1_Witness ==
    /\ cycle = 2
    /\ pc = "persist_println"
    /\ caller = "main_abbr"
    /\ hash(forecast) # hash(file[filename].content)

----------------------------------------------------------------------------
(* C2: persistence idempotence. While a slot's file holds exactly the text *)
(* fetched for the slot, neither the bootstrap step nor the detect step of *)
(* that slot calls persist_forecast, writes a file or prints; and no step  *)
(* of the program for the other slot changes this slot's file.             *)

C2_Step(slot) ==
    (pc \in {SetupPc(slot), DetectPc(slot)} /\ file[PathOf(slot)] = FileOf(Fetched(slot))) =>
        /\ pc' # "persist_println"
        /\ file' = file
        /\ stdout' = stdout
        /\ persisted' = persisted

C2_Frame(slot) ==
    (file'[PathOf(slot)] # file[PathOf(slot)] /\ pc # "session") =>
        /\ pc \in {"persist_create", "persist_write"}
        /\ filename = PathOf(slot)
        /\ caller \in {SetupSite(slot), MainSite(slot)}

C2_NoWriteWhenStoredEqualsFetched ==
    [][\A slot \in Slots : C2_Step(slot) /\ C2_Frame(slot)]_vars

\* A first cycle ends with both files holding the fetched texts, no call of
\* persist_forecast and nothing printed.
C2_Witness ==
    /\ cycle = 1
    /\ pc = "sleep"
    /\ persisted = {}
    /\ stdout = <<>>
    /\ full_forecast # <<>>
    /\ file[FORECAST_FULL_PATH] = FileOf(full_forecast)
    /\ file[FORECAST_ABBREVIATED_PATH] = FileOf(abbreviated_forecast)

----------------------------------------------------------------------------
(* C3 as stated: for any stored text T1 and fetched text T2 with T1 # T2,  *)
(* when the slot's detect/persist step has completed without error the     *)
(* slot's file holds exactly T2. Stated for every completion of the step   *)
(* (for T1 = T2 the file holds T2 already).                                *)

C3_Original ==
    [][\A slot \in Slots :
          (pc # pc' /\ pc' = AfterDetect(slot)) =>
              file'[PathOf(slot)] = FileOf(Fetched(slot))]_vars

(* C3 as amended: for any stored text T1 and fetched text T2 whose         *)
(* fingerprints differ, the detect step calls persist_forecast with T2     *)
(* for the slot, and when that call returns Ok the slot's file holds       *)
(* exactly T2 (the old content replaced, not extended) and T2 is the last  *)
(* text printed.                                                           *)

C3_Decides(slot) ==
    ( /\ pc = DetectPc(slot)
      /\ pc' \notin Terminated
      /\ hash(file[PathOf(slot)].content) # hash(Fetched(slot)) ) =>
        CallsPersist(slot, MainSite(slot))

C3_Completes(slot) ==
    (pc \in PersistPcs /\ caller = MainSite(slot) /\ pc' = AfterDetect(slot)) =>
        /\ file'[PathOf(slot)] = FileOf(Fetched(slot))
        /\ stdout' # <<>>
        /\ Last(stdout') = Fetched(slot)

C3_Running(slot) ==
    (pc \in PersistPcs /\ caller = MainSite(slot)) =>
        /\ forecast = Fetched(slot)
        /\ filename = PathOf(slot)
        /\ pc' \in PersistPcs \cup Terminated \cup {AfterDetect(slot)}

C3_ChangedFingerprintIsWritten ==
    [][\A slot \in Slots : C3_Decides(slot) /\ C3_Completes(slot) /\ C3_Running(slot)]_vars

\* The detect/persist step of the Abbreviated slot has just replaced a
\* different text: the cycle found the file (no bootstrap), called
\* persist_forecast from main, and the file holds the fetched text.
C3_Witness ==
    /\ pc = "sleep"
    /\ persisted = {"main_abbr"}
    /\ abbreviated_forecast = TextOfLen(1)
    /\ file[FORECAST_ABBREVIATED_PATH] = FileOf(abbreviated_forecast)
    /\ Last(stdout) = abbreviated_forecast

----------------------------------------------------------------------------
(* C4: bootstrap on absence. If a slot's file does not exist when setup    *)
(* reaches the slot, setup calls persist_forecast with the text fetched    *)
(* for that slot in this cycle, whatever the text and its fingerprint are; *)
(* when the call returns, the file holds exactly that text and setup goes  *)
(* on. The same for the Full and for the Abbreviated slot, whatever the    *)
(* state of the other.                                                     *)

C4_Calls(slot) ==
    (pc = SetupPc(slot) /\ ~exists(PathOf(slot))) =>
        CallsPersist(slot, SetupSite(slot))

C4_Creates(slot) ==
    (pc \in PersistPcs /\ caller = SetupSite(slot)) =>
        /\ forecast = Fetched(slot)
        /\ filename = PathOf(slot)
        /\ pc' \in PersistPcs \cup Terminated \cup {AfterSetup(slot)}
        /\ pc' = AfterSetup(slot) => file'[PathOf(slot)] = FileOf(Fetched(slot))

C4_BootstrapOnAbsence ==
    [][\A slot \in Slots : C4_Calls(slot) /\ C4_Creates(slot)]_vars

\* setup has created the Full slot with the empty text, whose fingerprint
\* is that of a file without content, while the Abbreviated slot is missing.
C4_Witness ==
    /\ pc = "setup_abbr"
    /\ persisted = {"setup_full"}
    /\ full_forecast = <<>>
    /\ file[FORECAST_FULL_PATH] = FileOf(full_forecast)
    /\ ~exists(FORECAST_ABBREVIATED_PATH)

----------------------------------------------------------------------------
(* C5: within one cycle persist_forecast is called at most once per slot:  *)
(* never from setup and again from main for the same slot. Every call      *)
(* prints exactly once, so that a first cycle that found no file has       *)
(* printed the full and the abbreviated text, once each and in this order, *)
(* when it reaches the detect steps and when it sleeps.                    *)

C5_AtMostOncePerCycle ==
    /\ \A slot \in Slots : ~({SetupSite(slot), MainSite(slot)} \subseteq persisted)
    /\ Len(stdout) <= 2 * (cycle - 1) + Cardinality(persisted)
    /\ (cycle = 1 /\ pc # "persist_println") => Len(stdout) = Cardinality(persisted)
    /\ ( /\ cycle = 1
         /\ persisted = {"setup_full", "setup_abbr"}
         /\ pc \in {"detect_full", "detect_abbr", "sleep"} ) =>
           stdout = <<full_forecast, abbreviated_forecast>>

\* The first cycle found no file, created both and sleeps: two different
\* texts were printed once each.
C5_Witness ==
    /\ cycle = 1
    /\ pc = "sleep"
    /\ persisted = {"setup_full", "setup_abbr"}
    /\ full_forecast # abbreviated_forecast
    /\ stdout = <<full_forecast, abbreviated_forecast>>
    /\ file[FORECAST_FULL_PATH] = FileOf(full_forecast)
    /\ file[FORECAST_ABBREVIATED_PATH] = FileOf(abbreviated_forecast)

----------------------------------------------------------------------------
(* The chunker's result, once chunk_pc = "done", is sub_string.            *)

RECURSIVE Concat(_)
Concat(ss) == IF ss = <<>> THEN <<>> ELSE Head(ss) \o Concat(Tail(ss))

CeilDiv(n, d) == (n + d - 1) \div d

(* C6: chunk round trip. For every text, the fragments the chunker returns, *)
(* concatenated in order, are the text: no character lost, duplicated or   *)
(* reordered. While the chunker runs, the fragments collected so far       *)
(* followed by the characters not yet taken are the text.                  *)

C6_ChunkRoundTrip ==
    /\ chunk_pc = "iter" => Concat(sub_string) \o chars = chunk_input
    /\ chunk_pc = "done" => Concat(sub_string) = chunk_input

\* A text of 325 characters was chunked into three fragments.
C6_Witness ==
    /\ chunk_pc = "done"
    /\ Len(chunk_input) = 325
    /\ Len(sub_string) = 3
    /\ sub_string[1] # sub_string[2]

----------------------------------------------------------------------------
(* C7: chunk count and boundary. For every text the chunker returns        *)
(* exactly ceil(len / 160) fragments, none of them empty: no fragment for  *)
(* the empty text, k fragments for a text of k * 160 characters.           *)

C7_ChunkCount ==
    /\ \A i \in 1..Len(sub_string) : sub_string[i] # <<>>
    /\ chunk_pc = "done" =>
          Len(sub_string) = CeilDiv(Len(chunk_input), TEXT_MESSAGE_LENGTH)

\* A text of exactly 2 * 160 characters was chunked into two fragments.
C7_Witness ==
    /\ chunk_pc = "done"
    /\ Len(chunk_input) = 2 * TEXT_MESSAGE_LENGTH
    /\ Len(sub_string) = 2

\* The empty text was chunked into no fragment.
C7_WitnessEmpty ==
    /\ chunk_pc = "done"
    /\ chunk_input = <<>>
    /\ sub_string = <<>>

----------------------------------------------------------------------------
(* C8: chunk lengths. For every text, every fragment but the last has      *)
(* exactly 160 characters and the last has between 1 and 160; a text of    *)
(* 325 characters gives fragments of 160, 160 and 5 characters.            *)

C8_ChunkLengths ==
    /\ chunk_pc = "done" =>
          \A i \in 1..Len(sub_string) :
              /\ i < Len(sub_string) => Len(sub_string[i]) = TEXT_MESSAGE_LENGTH
              /\ i = Len(sub_string) => Len(sub_string[i]) \in 1..TEXT_MESSAGE_LENGTH
    /\ (chunk_pc = "done" /\ Len(chunk_input) = 325) =>
          [i \in 1..Len(sub_string) |-> Len(sub_string[i])] = <<160, 160, 5>>

C8_Witness ==
    /\ chunk_pc = "done"
    /\ Len(chunk_input) = 325
    /\ [i \in 1..Len(sub_string) |-> Len(sub_string[i])] = <<160, 160, 5>>

----------------------------------------------------------------------------
(* C9: every call of persist_forecast prints the text before it touches    *)
(* the file, whoever the caller is (setup's bootstrap as well as main's    *)
(* change detection): the first step of every call appends the text to     *)
(* the console; while the call creates or writes the file, and when it has *)
(* failed doing so, its text is the last one printed; and a file changes   *)
(* only in those later steps, which print nothing.                         *)

C9_Printed ==
    ( \/ pc \in {"persist_create", "persist_write"}
      \/ (pc \in Terminated /\ error = "StorageWriteError") ) =>
        /\ stdout # <<>>
        /\ Last(stdout) = forecast

C9_Order ==
    /\ pc = "persist_println" => stdout' = Append(stdout, forecast) /\ file' = file
    /\ (file' # file /\ pc # "session") =>
          pc \in {"persist_create", "persist_write"} /\ stdout' = stdout
    /\ pc' = "persist_println" => caller' \in {"setup_full", "setup_abbr", "main_full", "main_abbr"}

C9_EmitBeforeStorage == []C9_Printed /\ [][C9_Order]_vars

\* The bootstrap write of the Full slot failed at File::create: the process
\* panicked, the file is still missing and the text is on the console.
C9_Witness ==
    /\ pc = "panicked"
    /\ error = "StorageWriteError"
    /\ caller = "setup_full"
    /\ ~exists(FORECAST_FULL_PATH)
    /\ stdout = <<forecast>>
    /\ forecast = TextOfLen(MaxTextLen)

----------------------------------------------------------------------------
(* C10: every error is fatal. Whenever a session, fetch, read or write     *)
(* error has been raised the process has terminated (by a panic or by      *)
(* main returning the Err), a terminated process takes no further step,    *)
(* so no later statement of the cycle runs and no further cycle starts;    *)
(* and the process terminates in no other way.                             *)

C10_Terminal == (error # "none") <=> (pc \in Terminated)

C10_NoStepAfter == pc \notin Terminated

C10_ErrorsAreFatal == []C10_Terminal /\ [][C10_NoStepAfter]_vars

\* The first cycle completed; in the second the read of the Abbreviated slot
\* failed after the Full slot was handled: main returned the Err.
C10_Witness ==
    /\ cycle = 2
    /\ pc = "returned_err"
    /\ error = "StorageReadError"
    /\ persisted = {"main_full"}

----------------------------------------------------------------------------
(* C11: setup leaves an existing slot alone. When the bootstrap step of a  *)
(* slot runs and the slot's file exists, the step goes on to the next      *)
(* statement without calling persist_forecast: no file changes, nothing is *)
(* printed, no error is raised, whatever text the file holds (the step     *)
(* does not look at it, so also when it differs from the fetched text).    *)

C11_Step(slot) ==
    (pc = SetupPc(slot) /\ file[PathOf(slot)].exists) =>
        /\ pc' = AfterSetup(slot)
        /\ file' = file
        /\ stdout' = stdout
        /\ persisted' = persisted
        /\ error' = error

C11_ExistingSlotUntouched == [][\A slot \in Slots : C11_Step(slot)]_vars

\* setup has passed both slots in the first cycle without a write although
\* the Abbreviated file holds another text than the fetched one.
C11_Witness ==
    /\ cycle = 1
    /\ pc = "detect_full"
    /\ persisted = {}
    /\ stdout = <<>>
    /\ file[FORECAST_ABBREVIATED_PATH].exists
    /\ file[FORECAST_ABBREVIATED_PATH].content # abbreviated_forecast
    /\ hash(file[FORECAST_ABBREVIATED_PATH].content) # hash(abbreviated_forecast)

----------------------------------------------------------------------------
(* C12: in every cycle setup handles a slot before main reads it: main     *)
(* reaches the read of the Full slot only from setup's second check or     *)
(* from the bootstrap write that check called, and the read of the         *)
(* Abbreviated slot only after the Full slot was handled. So whenever main *)
(* is at a detection read, both files exist (nothing deletes a file inside *)
(* a cycle), also in the first cycle of a process that found no file; a    *)
(* read can fail then only by an I/O failure.                              *)

C12_SlotPresent ==
    (pc \in {"detect_full", "detect_abbr"}) => \A p \in Paths : file[p].exists

C12_Order ==
    /\ (pc # "setup_abbr" /\ pc' = "setup_abbr") =>
           \/ pc = "setup_full"
           \/ pc = "persist_write" /\ caller = "setup_full"
    /\ (pc # "detect_full" /\ pc' = "detect_full") =>
           \/ pc = "setup_abbr"
           \/ pc = "persist_write" /\ caller = "setup_abbr"
    /\ (pc # "detect_abbr" /\ pc' = "detect_abbr") =>
           \/ pc = "detect_full"
           \/ pc = "persist_write" /\ caller = "main_full"

C12_BootstrapBeforeRead == []C12_SlotPresent /\ [][C12_Order]_vars

\* The first cycle of a process that found neither file: setup created both
\* and main is at the read of the Full slot.
C12_Witness ==
    /\ cycle = 1
    /\ pc = "detect_full"
    /\ persisted = {"setup_full", "setup_abbr"}
    /\ Len(stdout) = 2
    /\ \A p \in Paths : file[p].exists

----------------------------------------------------------------------------
(* C13: bootstrap writes belong to the first cycle. setup runs in every    *)
(* cycle, but in a cycle after the first it calls persist_forecast for a   *)
(* slot only if the slot's file was changed from outside since the         *)
(* previous cycle ended; within a cycle it calls it at most once per slot; *)
(* and no step of the program makes an existing file missing.              *)

C13_OnlyFirstCycle ==
    \A slot \in Slots :
        (cycle > 1 /\ SetupSite(slot) \in persisted) => PathOf(slot) \in tampered

C13_Step ==
    /\ \A slot \in Slots :
          (pc = SetupPc(slot) /\ pc' = "persist_println") =>
              SetupSite(slot) \notin persisted
    /\ (pc # "session") => \A p \in Paths : file[p].exists => file'[p].exists

C13_BootstrapOnlyInFirstCycle == []C13_OnlyFirstCycle /\ [][C13_Step]_vars

\* The first cycle printed two texts and slept; nothing was changed from
\* outside, and setup has passed both slots in the second cycle without a
\* write.
C13_Witness ==
    /\ cycle = 2
    /\ pc = "detect_full"
    /\ tampered = {}
    /\ persisted = {}
    /\ Len(stdout) = 2
    /\ \A p \in Paths : file[p].exists

----------------------------------------------------------------------------
(* C14: the loop has no end of its own. A cycle that has started goes on   *)
(* until it sleeps, unless an error ends the process; a sleep (below the   *)
(* bound of the model on the number of cycles) is followed by the start of *)
(* the next cycle, which goes on to fetch unless the session fails; and    *)
(* the step out of the sleep is the same whether or not the cycle wrote a  *)
(* file: it starts the next cycle and changes no file and no output.       *)

C14_CycleReachesSleep ==
    (pc = "session") ~> (pc = "sleep" \/ pc \in Terminated)

C14_SleepReachesFetch ==
    (pc = "sleep" /\ cycle < MaxCycles) ~> (pc = "fetch_full" \/ pc \in Terminated)

C14_SleepStep ==
    (pc = "sleep") =>
        /\ pc' = "session"
        /\ cycle' = cycle + 1
        /\ file' = file
        /\ stdout' = stdout
        /\ error' = error

C14_LoopNeverEnds ==
    /\ C14_CycleReachesSleep
    /\ C14_SleepReachesFetch
    /\ [][C14_SleepStep]_vars

\* A first cycle that wrote nothing has slept, and the second cycle is at
\* its first fetch.
C14_Witness ==
    /\ cycle = 2
    /\ pc = "fetch_full"
    /\ stdout = <<>>
    /\ tampered = {}

----------------------------------------------------------------------------
(* C15: the statements of a cycle run in one fixed order: session, fetch   *)
(* of the full text, fetch of the abbreviated text, setup of the Full and  *)
(* of the Abbreviated slot, detection (and persist_forecast) for the Full  *)
(* slot, the same for the Abbreviated slot, sleep. persist_forecast        *)
(* returns to the statement after its call. The Abbreviated slot is read   *)
(* only when the Full slot is done (its file's fingerprint is that of the  *)
(* full text fetched), and the chunker never runs: after the Abbreviated   *)
(* slot only the sleep follows.                                            *)

C15_After(site) ==
    CASE site = "setup_full" -> "setup_abbr"
      [] site = "setup_abbr" -> "detect_full"
      [] site = "main_full" -> "detect_abbr"
      [] site = "main_abbr" -> "sleep"
      [] OTHER -> "none"

C15_Successors ==
    CASE pc = "session" -> {"session", "fetch_full"}
      [] pc = "fetch_full" -> {"fetch_abbr"}
      [] pc = "fetch_abbr" -> {"setup_full"}
      [] pc = "setup_full" -> {"setup_abbr", "persist_println"}
      [] pc = "setup_abbr" -> {"detect_full", "persist_println"}
      [] pc = "detect_full" -> {"detect_abbr", "persist_println"}
      [] pc = "detect_abbr" -> {"sleep", "persist_println"}
      [] pc = "persist_println" -> {"persist_create"}
      [] pc = "persist_create" -> {"persist_write"}
      [] pc = "persist_write" -> {C15_After(caller)}
      [] pc = "sleep" -> {"session"}
      [] OTHER -> {}

C15_Step ==
    /\ pc' \in C15_Successors \cup Terminated
    /\ (pc \notin PersistPcs /\ pc' = "persist_println") =>
           caller' = (IF pc \in {"setup_full", "setup_abbr"} THEN pc
                      ELSE IF pc = "detect_full" THEN "main_full" ELSE "main_abbr")

C15_FullFirst ==
    (pc = "detect_abbr" \/ (pc \in PersistPcs /\ caller = "main_abbr") \/ pc = "sleep") =>
        /\ file[FORECAST_FULL_PATH].exists
        /\ hash(file[FORECAST_FULL_PATH].content) = hash(full_forecast)

C15_NoChunking == ChunkIdle

C15_FixedOrder == []C15_FullFirst /\ []C15_NoChunking /\ [][C15_Step]_vars

\* A first cycle overwrote the Full slot, then the Abbreviated slot, and is
\* at the sleep; the chunker did not run.
C15_Witness ==
    /\ cycle = 1
    /\ pc = "sleep"
    /\ persisted = {"main_full", "main_abbr"}
    /\ stdout = <<full_forecast, abbreviated_forecast>>
    /\ full_forecast # abbreviated_forecast
    /\ chunk_pc = "idle"

----------------------------------------------------------------------------
(* C16 as stated: after a slot's file was changed from outside between two *)
(* cycles, the slot holds the text the next cycle fetched for it when that *)
(* cycle is done with the slot.                                            *)

C16_Original ==
    [][\A slot \in Slots :
          (pc # pc' /\ pc' = AfterDetect(slot) /\ PathOf(slot) \in tampered) =>
              file'[PathOf(slot)] = FileOf(Fetched(slot))]_vars

(* C16: a slot's file was changed from outside between two cycles. If at   *)
(* the next cycle's detection read the fingerprint of the file's text      *)
(* differs from that of the fetched text, main calls persist_forecast with *)
(* the fetched text, whatever the program printed or wrote before (also    *)
(* the same text); and when the cycle is done with the slot, the file      *)
(* holds the fetched text if the cycle wrote it, and otherwise still holds *)
(* the outside text, whose fingerprint is that of the fetched text.        *)

C16_DetectStep(slot) ==
    (/\ pc = DetectPc(slot)
     /\ PathOf(slot) \in tampered
     /\ hash(file[PathOf(slot)].content) # hash(Fetched(slot))
     /\ pc' \notin Terminated) =>
        CallsPersist(slot, MainSite(slot))

C16_DoneStep(slot) ==
    (pc # pc' /\ pc' = AfterDetect(slot) /\ PathOf(slot) \in tampered) =>
        IF {SetupSite(slot), MainSite(slot)} \cap persisted # {}
        THEN file'[PathOf(slot)] = FileOf(Fetched(slot))
        ELSE /\ file'[PathOf(slot)] = file[PathOf(slot)]
             /\ file[PathOf(slot)].exists
             /\ hash(file[PathOf(slot)].content) = hash(Fetched(slot))

C16_TamperedSlotRewritten ==
    [][\A slot \in Slots : C16_DetectStep(slot) /\ C16_DoneStep(slot)]_vars

\* The first cycle wrote the same text to both slots. The Full file was then
\* changed from outside to a text with another fingerprint, the second cycle
\* fetched the text of the first again and is writing it to the Full slot
\* again.
C16_Witness ==
    /\ cycle = 2
    /\ pc = "persist_create"
    /\ caller = "main_full"
    /\ FORECAST_FULL_PATH \in tampered
    /\ stdout = <<forecast, forecast, forecast>>
    /\ forecast = full_forecast
    /\ file[FORECAST_FULL_PATH].exists
    /\ hash(file[FORECAST_FULL_PATH].content) # hash(forecast)

----------------------------------------------------------------------------
(* C17: nothing is undone when the process ends. The step that ends the    *)
(* process prints nothing, removes nothing from the output and changes no  *)
(* file but, at most, the one whose write failed. So when the process has  *)
(* ended in a cycle that wrote the Full slot before (from setup or from    *)
(* main) and the failure was not in that write, the Full file holds the    *)
(* full text fetched in this cycle and that text is in the output.         *)

C17_EndStep ==
    (pc \notin Terminated /\ pc' \in Terminated) =>
        /\ stdout' = stdout
        /\ \A p \in Paths : p # filename => file'[p] = file[p]
        /\ \A p \in Paths : file[p].exists => file'[p].exists

C17_FullKept ==
    (/\ pc \in Terminated
     /\ {"setup_full", "main_full"} \cap persisted # {}
     /\ filename # FORECAST_FULL_PATH) =>
        /\ file[FORECAST_FULL_PATH] = FileOf(full_forecast)
        /\ \E i \in 1..Len(stdout) : stdout[i] = full_forecast

C17_NoCleanup == []C17_FullKept /\ [][C17_EndStep]_vars

\* main overwrote the Full slot, then the write of the Abbreviated slot
\* failed after a part of the text: the process has ended, the Full file
\* holds the new text and both texts are in the output.
C17_Witness ==
    /\ pc = "returned_err"
    /\ error = "StorageWriteError"
    /\ caller = "main_abbr"
    /\ persisted = {"main_full", "main_abbr"}
    /\ file[FORECAST_FULL_PATH] = FileOf(full_forecast)
    /\ full_forecast # <<>>
    /\ stdout = <<full_forecast, abbreviated_forecast>>
    /\ file[FORECAST_ABBREVIATED_PATH].content # abbreviated_forecast

----------------------------------------------------------------------------
(* C18: a failed fetch changes nothing durable. From the start of a cycle  *)
(* up to the end of the second fetch no step of the program changes a file *)
(* or the output; a retrieval error is raised only by one of the two       *)
(* fetches; and when it has been raised, persist_forecast was not called   *)
(* in this cycle, also when the other fetch had returned a text whose      *)
(* fingerprint differs from the stored one.                                *)

C18_FetchStep ==
    /\ (pc \in {"fetch_full", "fetch_abbr"} \/ (pc = "session" /\ pc' # "session")) =>
           (file' = file /\ stdout' = stdout)
    /\ (error = "none" /\ error' = "RetrievalError") =>
           (pc \in {"fetch_full", "fetch_abbr"} /\ pc' \in Terminated)

C18_NothingPersisted ==
    (error = "RetrievalError") => (pc \in Terminated /\ persisted = {} /\ filename = "")

C18_FetchFailureChangesNothing == []C18_NothingPersisted /\ [][C18_FetchStep]_vars

\* The fetch of the full text returned a text whose fingerprint differs from
\* that of the Full file, then the fetch of the abbreviated text failed:
\* the process has ended, nothing was written or printed.
C18_Witness ==
    /\ pc = "returned_err"
    /\ error = "RetrievalError"
    /\ cycle = 1
    /\ stdout = <<>>
    /\ file[FORECAST_FULL_PATH].exists
    /\ hash(file[FORECAST_FULL_PATH].content) # hash(full_forecast)

----------------------------------------------------------------------------
(* C19 as stated: whenever a cycle is at its sleep, each slot's file holds *)
(* the text fetched for the slot in this cycle.                            *)

C19_Original ==
    (pc = "sleep") =>
        \A slot \in Slots : file[PathOf(slot)] = FileOf(Fetched(slot))

(* C19: whenever a cycle is at its sleep, each slot's file exists and the  *)
(* fingerprint of its text is that of the text fetched for the slot in     *)
(* this cycle; if the cycle wrote the slot, the file holds the fetched     *)
(* text itself.                                                            *)

C19_StoredMatchesFetched ==
    (pc = "sleep") =>
        \A slot \in Slots :
            /\ file[PathOf(slot)].exists
            /\ hash(file[PathOf(slot)].content) = hash(Fetched(slot))
            /\ ({SetupSite(slot), MainSite(slot)} \cap persisted # {}) =>
                   file[PathOf(slot)] = FileOf(Fetched(slot))

\* A second cycle is at its sleep after the Full file was changed from
\* outside: it overwrote the Full slot and left the Abbreviated slot, whose
\* text is the fetched one.
C19_Witness ==
    /\ cycle = 2
    /\ pc = "sleep"
    /\ FORECAST_FULL_PATH \in tampered
    /\ persisted = {"main_full"}
    /\ file[FORECAST_FULL_PATH] = FileOf(full_forecast)
    /\ file[FORECAST_ABBREVIATED_PATH] = FileOf(abbreviated_forecast)
    /\ Len(stdout) = 3

====
